---- MODULE Spec2Model ----
(***************************************************************************)
(* Thinkzella trading journal (src/app.py): a Streamlit script over a      *)
(* Supabase table "trades".  Every widget interaction re-runs the script   *)
(* from the top: line 42 reloads all_trades from the store, then the       *)
(* branch of the selected page runs.  The store is shared, so a second     *)
(* browser session of the same script can insert or delete between this    *)
(* session's reload and its page body.                                     *)
(*                                                                         *)
(* Numbers: prices are whole dollars and quantities whole units, so the    *)
(* float arithmetic of the script is exact on every modelled input.        *)
(* The store is taken to answer every request (the except branch of        *)
(* load_data, lines 33-35, is not modelled).                               *)
(***************************************************************************)
EXTENDS Integers, Sequences, FiniteSets, TLC

\* Most rows ever inserted into the table in one behaviour.
MaxTrades == 2

VARIABLES db, nextId, all_trades, menu, pc, clicked, screen, last_delete

vars == <<db, nextId, all_trades, menu, pc, clicked, screen, last_delete>>

session == <<all_trades, menu, pc, clicked, screen, last_delete>>

----------------------------------------------------------------------------
\* Widgets of the script

Pages == {"Dashboard", "Calendar", "Trade Log", "Manual Entry", "Trade Analysis", "Deep Statistics"}

Types == {"Long", "Short"}

Mistakes == {"None", "FOMO", "Early Exit", "Revenge"}

Dates == {1, 2}

Today == CHOOSE d \in Dates : \A e \in Dates : e <= d

\* Text is a sequence of one-character strings; these are typed tickers.
btc == <<"b", "t", "c">>

BTC == <<"B", "T", "C">>

ETH == <<"E", "T", "H">>

SOL == <<"S", "O", "L">>

BTC_padded == <<" ", "B", "T", "C", " ">>

UpperChar(c) ==
    CASE c = "b" -> "B"
      [] c = "t" -> "T"
      [] c = "c" -> "C"
      [] OTHER -> c

\* str.upper(): character by character, whitespace is kept.
Upper(s) == [i \in DOMAIN s |-> UpperChar(s[i])]

\* The form as Streamlit first shows it: every widget at its default, but
\* for the quantity, set to one unit (the widget starts at its minimum).
FormDefault ==
    [date |-> Today, ticker |-> <<>>, type |-> "Long", entry |-> 0, exit |-> 0,
     quantity |-> 1, setup |-> <<>>, mistake |-> "None", notes |-> <<>>]

\* Fills of the form that vary the side, the two prices and the quantity.
FormsPnl ==
    {[FormDefault EXCEPT !.ticker = btc, !.type = tp, !.entry = en, !.exit = ex, !.quantity = q] :
        tp \in Types, en \in {1, 2}, ex \in {1, 2}, q \in {1, 2}}

\* Fills that vary the side and the result of the trade.
FormsLedger ==
    {[FormDefault EXCEPT !.ticker = btc, !.type = tp, !.entry = 2, !.exit = ex] :
        tp \in Types, ex \in {1, 2, 3}}

\* Fills that vary the trade date and the result of the trade.
FormsDates ==
    {[FormDefault EXCEPT !.ticker = btc, !.date = d, !.entry = 2, !.exit = ex] :
        d \in Dates, ex \in {1, 2, 4}}

\* Fills that vary the typed ticker and the mistake.
FormsGroups ==
    {[FormDefault EXCEPT !.ticker = t, !.mistake = m, !.entry = 1, !.exit = 2] :
        t \in {btc, BTC_padded, <<>>}, m \in {"None", "FOMO"}}

----------------------------------------------------------------------------
\* Manual Entry: the record built on submit

PLNoSign(f) == (f.exit - f.entry) * f.quantity

PL(f) == (f.exit - f.entry) * f.quantity * (IF f.type = "Long" THEN 1 ELSE -1)

StatusGE(pl) == IF pl >= 0 THEN "Win" ELSE "Loss"

Status(pl) == IF pl > 0 THEN "Win" ELSE "Loss"

\* new_data, plus the id the table assigns on insert.
NewData(f, id) ==
    [id |-> id, date |-> f.date, ticker |-> Upper(f.ticker), type |-> f.type,
     entry |-> f.entry, exit |-> f.exit, quantity |-> f.quantity, setup |-> f.setup,
     mistake |-> f.mistake, notes |-> f.notes, p_l |-> PL(f), status |-> Status(PL(f))]

Insert(f) == db \cup {NewData(f, nextId)}

----------------------------------------------------------------------------
\* Database engine

Ids(rows) == {r.id : r \in rows}

Range(s) == {s[i] : i \in DOMAIN s}

\* Every order of the rows with the dates descending; rows of one date come
\* in whatever order the store returns them.
RECURSIVE DescOrderings(_)
DescOrderings(rows) ==
    IF rows = {} THEN {<<>>}
    ELSE UNION {{<<r>> \o t : t \in DescOrderings(rows \ {r})} :
                    r \in {x \in rows : \A y \in rows : y.date <= x.date}}

load_data == DescOrderings(db)

delete_trade_upto(trade_id) == {r \in db : r.id > trade_id}

delete_trade(trade_id) == {r \in db : r.id # trade_id}

\* What execute() answers for the delete (the script discards it): the number
\* of rows removed; the call returns normally whether or not a row matched.
DeleteResponse(trade_id) ==
    [rows |-> Cardinality({r \in db : r.id = trade_id}), outcome |-> "returned"]

NoDelete == [rows |-> 0, outcome |-> "none"]

----------------------------------------------------------------------------
\* Views computed from the loaded snapshot

Abs(v) == IF v < 0 THEN -v ELSE v

RECURSIVE SumSeq(_)
SumSeq(s) == IF s = <<>> THEN 0 ELSE Head(s).p_l + SumSeq(Tail(s))

RECURSIVE SumSet(_)
SumSet(rows) ==
    IF rows = {} THEN 0
    ELSE LET r == CHOOSE x \in rows : TRUE IN r.p_l + SumSet(rows \ {r})

\* f"${v:,.2f}" on a whole-dollar amount.
FormatMoney(v) == [sign |-> IF v < 0 THEN "-" ELSE "", dollars |-> Abs(v), cents |-> 0]

\* f"${v:.0f}" on a whole-dollar amount.
FormatWhole(v) == [sign |-> IF v < 0 THEN "-" ELSE "", dollars |-> Abs(v)]

NetPnl(all) == SumSeq(all)

WinsGE(all) == Cardinality({i \in DOMAIN all : all[i].p_l >= 0})

Wins(all) == Cardinality({i \in DOMAIN all : all[i].p_l > 0})

\* len(wins) / len(all_trades) * 100, kept as a fraction; evaluated only
\* where the script evaluates it, on a non-empty frame.
WinRate(all) == [num |-> Wins(all) * 100, den |-> Len(all)]

\* f"{win_rate:.1f}%": tenths of a percent, rounded to nearest.
FormatRate(w) == (2 * 10 * w.num + w.den) \div (2 * w.den)

KeepOrder(all) == {all}

\* sort_values("date"): the dates ascending; the sort is not stable, so rows
\* of one date come in any order.
RECURSIVE AscOrderingsOf(_)
AscOrderingsOf(rows) ==
    IF rows = {} THEN {<<>>}
    ELSE UNION {{<<r>> \o t : t \in AscOrderingsOf(rows \ {r})} :
                    r \in {x \in rows : \A y \in rows : x.date <= y.date}}

SortValues(all) == AscOrderingsOf(Range(all))

\* df_plot with its Equity column, one row per trade.
CumSum(s) == [i \in DOMAIN s |-> [date |-> s[i].date, Equity |-> SumSeq(SubSeq(s, 1, i))]]

\* Every curve the chart can show for the snapshot.
EquityCurves(all) == {CumSum(s) : s \in SortValues(all)}

DashboardView(all) ==
    IF all = <<>> THEN [info |-> "No trades found in Supabase."]
    ELSE [net_pl |-> FormatMoney(NetPnl(all)), win_rate |-> WinRate(all),
          win_rate_shown |-> FormatRate(WinRate(all)), total |-> Len(all),
          equity |-> EquityCurves(all)]

\* groupby(date)['p_l'].sum()
DailyPnl(all) ==
    [d \in {r.date : r \in Range(all)} |-> SumSet({r \in Range(all) : r.date = d})]

EventColor(v) == IF v >= 0 THEN "#2ecc71" ELSE "#e74c3c"

CalendarEvents(all) ==
    {[title |-> FormatWhole(DailyPnl(all)[d]), start |-> d,
      backgroundColor |-> EventColor(DailyPnl(all)[d])] : d \in DOMAIN DailyPnl(all)}

\* groupby("setup"): Total P&L, Trade Count, Average P&L (a fraction), Wins.
StrategyReport(all) ==
    [s \in {r.setup : r \in Range(all)} |->
        LET g == {r \in Range(all) : r.setup = s} IN
        [total_pl |-> SumSet(g), trade_count |-> Cardinality(g),
         average_pl |-> [num |-> SumSet(g), den |-> Cardinality(g)],
         wins |-> Cardinality({r \in g : r.status = "Win"})]]

RECURSIVE SumAbs(_)
SumAbs(rows) ==
    IF rows = {} THEN 0
    ELSE LET r == CHOOSE x \in rows : TRUE IN Abs(r.p_l) + SumAbs(rows \ {r})

\* px.pie(all_trades, values=|p_l|, names='mistake'): one slice per name.
MistakeDistribution(all) ==
    [m \in {r.mistake : r \in Range(all)} |-> SumAbs({r \in Range(all) : r.mistake = m})]

\* groupby("ticker").agg({'p_l': 'sum', 'quantity': 'count'})
TickerAggregate(all) ==
    [t \in {r.ticker : r \in Range(all)} |->
        LET g == {r \in Range(all) : r.ticker = t} IN
        [p_l |-> SumSet(g), quantity |-> Cardinality(g)]]

\* all_trades["ticker"].unique()
TickerOptions(all) == {r.ticker : r \in Range(all)}

\* all_trades[all_trades["ticker"] == tick].iloc[0]
FirstTrade(all, tick) ==
    all[CHOOSE i \in DOMAIN all : all[i].ticker = tick /\ \A j \in 1..(i - 1) : all[j].ticker # tick]

YfTicker(tick) == IF tick \in {BTC, ETH, SOL} THEN tick \o <<"-", "U", "S", "D">> ELSE tick

DownloadOutcomes == {"data", "empty", "raise"}

ChartScreen(outcome) ==
    CASE outcome = "data" -> "candlestick"
      [] outcome = "empty" -> "No market data found."
      [] OTHER -> "Candle Error"

----------------------------------------------------------------------------
\* The script

NoClick == [kind |-> "none", id |-> 0]

Init ==
    /\ db = {}
    /\ nextId = 1
    /\ all_trades = <<>>
    /\ menu = "Dashboard"
    /\ pc = "rerun"
    /\ clicked = NoClick
    /\ screen = "none"
    /\ last_delete = NoDelete

\* Top of a run: the widget states arrive and line 42 reloads the snapshot.
Reload(m, c) ==
    /\ all_trades' \in load_data
    /\ menu' = m
    /\ clicked' = c
    /\ pc' = "run"
    /\ screen' = "none"
    /\ UNCHANGED <<db, nextId, last_delete>>

\* The sidebar radio is set to m (or another widget changes and m = menu).
Navigate(m) ==
    /\ pc = "idle"
    /\ Reload(m, NoClick)

\* "Sync to Supabase" is pressed.
ClickSubmit ==
    /\ pc = "idle"
    /\ menu = "Manual Entry"
    /\ nextId <= MaxTrades
    /\ Reload(menu, [kind |-> "submit", id |-> 0])

\* "Delete Permanently" of a row shown in the Trade Log is pressed.
ClickDelete(id) ==
    /\ pc = "idle"
    /\ menu = "Trade Log"
    /\ id \in Ids(Range(all_trades))
    /\ Reload(menu, [kind |-> "delete", id |-> id])

\* st.rerun(): the script starts over with no button pressed.
StRerun ==
    /\ pc = "rerun"
    /\ Reload(menu, NoClick)

ManualEntry(F) ==
    /\ pc = "run"
    /\ menu = "Manual Entry"
    /\ IF clicked.kind = "submit"
       THEN /\ \E f \in F : db' = Insert(f)
            /\ nextId' = nextId + 1
            /\ screen' = "Trade Permanently Saved!"
            /\ pc' = "rerun"
       ELSE /\ screen' = "manual_form"
            /\ pc' = "idle"
            /\ UNCHANGED <<db, nextId>>
    /\ clicked' = NoClick
    /\ UNCHANGED <<all_trades, menu, last_delete>>

DashboardSortInPlace ==
    /\ pc = "run"
    /\ menu = "Dashboard"
    /\ screen' = IF all_trades = <<>> THEN "No trades found in Supabase." ELSE "dashboard"
    /\ all_trades' \in SortValues(all_trades)
    /\ pc' = "idle"
    /\ clicked' = NoClick
    /\ UNCHANGED <<db, nextId, menu, last_delete>>

Dashboard ==
    /\ pc = "run"
    /\ menu = "Dashboard"
    /\ screen' = IF all_trades = <<>> THEN "No trades found in Supabase." ELSE "dashboard"
    /\ pc' = "idle"
    /\ clicked' = NoClick
    /\ UNCHANGED <<db, nextId, all_trades, menu, last_delete>>

TradeLog ==
    /\ pc = "run"
    /\ menu = "Trade Log"
    /\ IF all_trades # <<>> /\ clicked.kind = "delete" /\ clicked.id \in Ids(Range(all_trades))
       THEN /\ db' = delete_trade(clicked.id)
            /\ last_delete' = DeleteResponse(clicked.id)
            /\ pc' = "rerun"
            /\ UNCHANGED screen
       ELSE /\ screen' = IF all_trades = <<>> THEN "Database is empty." ELSE "trade_log"
            /\ pc' = "idle"
            /\ UNCHANGED <<db, last_delete>>
    /\ clicked' = NoClick
    /\ UNCHANGED <<nextId, all_trades, menu>>

TradeAnalysis ==
    /\ pc = "run"
    /\ menu = "Trade Analysis"
    /\ IF all_trades = <<>>
       THEN screen' = "No data."
       ELSE \E tick \in TickerOptions(all_trades), outcome \in DownloadOutcomes :
                LET tr == FirstTrade(all_trades, tick)
                    yf_t == YfTicker(tick)
                IN  /\ tr.ticker = tick
                    /\ Len(yf_t) >= Len(tick)
                    /\ screen' = ChartScreen(outcome)
    /\ pc' = "idle"
    /\ clicked' = NoClick
    /\ UNCHANGED <<db, nextId, all_trades, menu, last_delete>>

Calendar ==
    /\ pc = "run"
    /\ menu = "Calendar"
    /\ screen' = IF all_trades = <<>> THEN "none" ELSE "calendar"
    /\ pc' = "idle"
    /\ clicked' = NoClick
    /\ UNCHANGED <<db, nextId, all_trades, menu, last_delete>>

DeepStatistics ==
    /\ pc = "run"
    /\ menu = "Deep Statistics"
    /\ screen' = IF all_trades = <<>> THEN "No data available in Supabase." ELSE "deep_statistics"
    /\ pc' = "idle"
    /\ clicked' = NoClick
    /\ UNCHANGED <<db, nextId, all_trades, menu, last_delete>>

\* A second browser session of the same script, seen through the store:
\* its Manual Entry submit ...
OtherSessionSubmit(F) ==
    /\ nextId <= MaxTrades
    /\ ~(pc = "run" /\ clicked.kind = "submit")
    /\ \E f \in F : db' = Insert(f)
    /\ nextId' = nextId + 1
    /\ UNCHANGED session

\* ... and its Trade Log delete of a row it shows.
OtherSessionDelete ==
    /\ \E id \in Ids(db) : db' = delete_trade(id)
    /\ UNCHANGED <<nextId, all_trades, menu, pc, clicked, screen, last_delete>>

\* One browser session on its own.
NextSession(F) ==
    \/ \E m \in Pages : Navigate(m)
    \/ ClickSubmit
    \/ \E id \in 1..MaxTrades : ClickDelete(id)
    \/ StRerun
    \/ ManualEntry(F)
    \/ Dashboard
    \/ TradeLog
    \/ TradeAnalysis
    \/ Calendar
    \/ DeepStatistics

\* The session next to a second one on the same table.
Next(F) ==
    \/ NextSession(F)
    \/ OtherSessionSubmit(F)
    \/ OtherSessionDelete

\* Two sessions; trades that differ in side and result.
Spec == Init /\ [][Next(FormsLedger)]_vars

\* Two sessions; trades that differ in date and result.
SpecDates == Init /\ [][Next(FormsDates)]_vars

\* Two sessions; trades that differ in typed ticker and mistake.
SpecGroups == Init /\ [][Next(FormsGroups)]_vars

\* A single session; trades that differ in side, both prices and quantity.
SpecPnl == Init /\ [][NextSession(FormsPnl)]_vars

----------------------------------------------------------------------------
\* Properties

Sign(tp) == IF tp = "Long" THEN 1 ELSE -1

ReadOnlyPages == {"Dashboard", "Calendar", "Trade Analysis", "Deep Statistics"}

RECURSIVE StripLeft(_)
StripLeft(s) == IF s # <<>> /\ Head(s) = " " THEN StripLeft(Tail(s)) ELSE s

RECURSIVE StripRight(_)
StripRight(s) ==
    IF s # <<>> /\ s[Len(s)] = " " THEN StripRight(SubSeq(s, 1, Len(s) - 1)) ELSE s

\* What trimming a text gives; the script itself never trims.
Strip(s) == StripRight(StripLeft(s))

Rendered(page) == pc = "idle" /\ menu = page

\* C1: every stored record, and every record of the loaded snapshot, has
\* p_l = (exit - entry) * quantity * (+1 for Long, -1 for Short), whatever
\* submissions and deletions came before.
C1_PnlFromFields ==
    \A r \in db \cup Range(all_trades) :
        r.p_l = (r.exit - r.entry) * r.quantity * Sign(r.type)

\* A Short trade that closed above its entry, more than one unit, is stored
\* with a negative p_l after an earlier trade was deleted.
C1_Witness ==
    /\ nextId > Cardinality(db) + 1
    /\ \E r \in db : r.type = "Short" /\ r.exit > r.entry /\ r.quantity > 1 /\ r.p_l < 0

\* C2: a stored record has status Win exactly when its p_l > 0; p_l = 0 is
\* stored as Loss; there is no third status.
C2_StatusFromPnl ==
    \A r \in db :
        /\ r.status \in {"Win", "Loss"}
        /\ r.status = "Win" <=> r.p_l > 0
        /\ r.p_l = 0 => r.status = "Loss"

\* A trade that closed at its entry price is stored as a Loss.
C2_Witness == \E r \in db : r.exit = r.entry /\ r.p_l = 0 /\ r.status = "Loss"

\* C3: a delete of an id that is not in the table leaves the table as it is
\* and reports NotFound to the caller.
C3_DeleteOfMissingIdReportsNotFound ==
    [][(pc = "run" /\ menu = "Trade Log" /\ pc' = "rerun" /\ clicked.id \notin Ids(db))
          => (db' = db /\ last_delete'.outcome = "NotFound")]_vars

C5_EquityCurve ==
    Rendered("Dashboard") /\ all_trades # <<>> =>
        LET v == DashboardView(all_trades) IN
        /\ v.equity # {}
        /\ \A c \in v.equity :
            /\ Len(c) = Len(all_trades)
            /\ \A i \in 1..(Len(c) - 1) : c[i].date <= c[i + 1].date
            /\ c[Len(c)].Equity = SumSet(Range(all_trades))
            /\ FormatMoney(c[Len(c)].Equity) = v.net_pl

\* The Dashboard is on screen over two trades entered latest date first.
C5_Witness ==
    /\ Rendered("Dashboard")
    /\ \E r1, r2 \in Range(all_trades) :
        r1.id < r2.id /\ r1.date > r2.date /\ r1.p_l # 0 /\ r2.p_l # 0

\* C6: the Mistake Distribution has no slice for the mistake "None".
C6_MistakeDistributionExcludesNone ==
    Rendered("Deep Statistics") /\ all_trades # <<>> =>
        "None" \notin DOMAIN MistakeDistribution(all_trades)

\* C7: the Calendar has one event per date that has trades, carrying the
\* sum of that date's p_l, none for other dates, and a date that sums to 0
\* is coloured neither as a loss nor as a winning day is.
C7_CalendarBreakEven ==
    Rendered("Calendar") =>
        LET evts == CalendarEvents(all_trades) IN
        /\ \A d \in Dates :
            Cardinality({e \in evts : e.start = d})
                = IF \E r \in Range(all_trades) : r.date = d THEN 1 ELSE 0
        /\ \A e \in evts :
            /\ e.title = FormatWhole(SumSet({r \in Range(all_trades) : r.date = e.start}))
            /\ SumSet({r \in Range(all_trades) : r.date = e.start}) = 0
                => e.backgroundColor \notin {EventColor(-1), EventColor(1)}

\* C8 as claimed: the win rate is count(status = Win) / count * 100 on a
\* non-empty ledger, and is 0 on the empty one.
C8_WinRateZeroWhenEmpty ==
    Rendered("Dashboard") =>
        LET v == DashboardView(all_trades) IN
        /\ "win_rate" \in DOMAIN v
        /\ IF all_trades = <<>> THEN v.win_rate.num = 0
           ELSE v.win_rate.num * Len(all_trades)
                    = 100 * Cardinality({r \in Range(all_trades) : r.status = "Win"}) * v.win_rate.den

\* C8 as amended: on a non-empty ledger the win rate is
\* count(status = Win) / count * 100, over a positive count; on the empty
\* ledger the Dashboard shows its notice only and computes no win rate.
C8_WinRate ==
    Rendered("Dashboard") =>
        LET v == DashboardView(all_trades) IN
        IF all_trades = <<>> THEN DOMAIN v = {"info"} /\ screen = v.info
        ELSE /\ v.win_rate.den > 0
             /\ v.win_rate.den = Len(all_trades)
             /\ v.win_rate.num * Len(all_trades)
                    = 100 * Cardinality({r \in Range(all_trades) : r.status = "Win"}) * v.win_rate.den
             /\ v.win_rate_shown
                    = (2 * 1000 * Cardinality({r \in Range(all_trades) : r.status = "Win"})
                          + Len(all_trades)) \div (2 * Len(all_trades))

\* The Dashboard is on screen over a winner and a trade with p_l = 0.
C8_Witness ==
    /\ Rendered("Dashboard")
    /\ \E r1, r2 \in Range(all_trades) : r1.p_l > 0 /\ r2.p_l = 0

\* C9: every stored ticker is non-empty, trimmed and upper-cased.
C9_TickerNormalized ==
    \A r \in db : r.ticker # <<>> /\ Strip(r.ticker) = r.ticker /\ Upper(r.ticker) = r.ticker

\* C10: the body of a read-only page changes neither the table nor the
\* loaded snapshot, whatever the price download does; the reload at the top
\* of a run leaves the table alone; and this session changes the table only
\* in a Manual Entry submit or a Trade Log delete.
C10_ReadOnlyPagesKeepLedger ==
    [][/\ (pc = "run" /\ pc' = "idle" /\ menu \in ReadOnlyPages)
            => (db' = db /\ nextId' = nextId /\ all_trades' = all_trades)
       /\ (pc # "run" /\ pc' = "run") => (db' = db /\ nextId' = nextId)
       /\ (pc' # pc /\ db' # db)
            => \/ menu = "Manual Entry" /\ clicked.kind = "submit"
               \/ menu = "Trade Log" /\ clicked.kind = "delete"]_vars

\* Trade Analysis is on screen with the download having raised, over a
\* ledger of two trades.
C10_Witness ==
    /\ Rendered("Trade Analysis")
    /\ screen = ChartScreen("raise")
    /\ Cardinality(db) > 1
    /\ Range(all_trades) = db

====
